---- MODULE Spec2Model ----
(***************************************************************************)
(* Model of the voice-chat session pipeline of llm-voice-chat-curses:      *)
(* ChatManager (src/src/chat.py) together with the adapters it drives      *)
(* (src/src/whisper.py, src/src/llama.py, src/src/kokoro.py).              *)
(*                                                                         *)
(* process_voice_input is a blocking call; it is modelled as a sequence of *)
(* steps separated by the points where control leaves ChatManager (the     *)
(* on_chat_updated callback, LlamaChat.chat, Kokoro.create, play_audio).   *)
(* The other public methods of ChatManager are single steps and may be     *)
(* invoked at any of those points (from a callback or another thread).     *)
(* One call of process_voice_input is followed at a time: a second call,   *)
(* directly or through redo_last_message, and initialize_models start only *)
(* when none is in progress.                                               *)
(*                                                                         *)
(* status, updated and ret are the outputs of the last step: the texts it  *)
(* handed to status_callback, the number of times it called                *)
(* on_chat_updated, and the value it returned to its caller.               *)
(***************************************************************************)
EXTENDS Integers, Sequences, FiniteSets, TLC

(* ---------------------------- bounds ----------------------------------- *)
MaxHist == 3
MaxFrames == 1
MaxStreams == 2
MaxWindows == 8     \* check_interval windows polled in one passive capture
MaxContext == 4     \* messages LlamaChat holds after the system prompt

(* ---------------------------- values ----------------------------------- *)
None == "None"
NoneN == -1     \* None in a field that otherwise holds a number
True == "True"
False == "False"
UserTexts == {"hello", "again"}
Falsy == {"", None}
Replies == {"hi there", "hi again"}
LLM_ERROR == "An error occurred during the conversation."
SAMPLE_RATE == 16000
(* whisper.passive_record_and_transcribe, in tenths of a second:           *)
(* check_interval 0.5, silence_duration_required 3.0, and the value 0.3    *)
(* the accumulated silence is set to by a window that is not silent.       *)
CHECK_INTERVAL == 5
SILENCE_DURATION_REQUIRED == 30
SILENCE_RESTART == 3
Levels == {"below", "equal", "above"}   \* rms against silence_threshold

VARIABLES
    chat_history,       \* ChatState.chat_history: sequence of <<speaker, text>>
    scroll_offset,      \* ChatState.scroll_offset
    recording_stream,   \* ChatState.recording_stream: None or a stream id
    recording_frames,   \* ChatState.recording_frames: None or number of frames
    recording_pyaudio,  \* ChatState.recording_pyaudio: None or the PyAudio id
    sample_rate,        \* ChatState.sample_rate
    last_user_message,  \* ChatState.last_user_message
    processing,         \* ChatState.processing
    is_ptt_mode,        \* ChatState.is_ptt_mode
    llm,                \* ChatManager.llm: None or "loaded"
    tts,                \* ChatManager.tts: None or "loaded"
    messages,           \* LlamaChat.messages after the system prompt, or Untracked
    open_streams,       \* ids of the PyAudio input streams currently open
    pc,                 \* position of the process_voice_input call in progress
    user_message,       \* its parameter
    assistant_message,  \* its local assistant_message
    call,               \* bookkeeping of that call (see NewCall)
    passive,            \* phase of passive_record_and_transcribe ("off": not running)
    status,             \* texts handed to status_callback by the last step
    updated,            \* number of on_chat_updated calls made by the last step
    ret                 \* what the last step returned to its caller

stateVars == <<chat_history, scroll_offset, last_user_message, processing, is_ptt_mode>>
captureVars == <<recording_stream, recording_frames, recording_pyaudio, sample_rate>>
engineVars == <<llm, tts, messages>>
localVars == <<pc, user_message, assistant_message>>
vars == <<stateVars, captureVars, engineVars, localVars, call, open_streams,
          passive, status, updated, ret>>

(* ret: the operation that returned in the last step, its argument, its    *)
(* result, and for stop_recording the (audio_data, sample_rate) pair.      *)
NoData == <<NoneN, NoneN>>
ReturnedData(op, arg, val, data) == [op |-> op, arg |-> arg, val |-> val, data |-> data]
Returned(op, val) == ReturnedData(op, None, val, NoData)
NoReturn == Returned("none", None)

(* passive: where the chat loop is inside handle_passive_recording (phase: *)
(* "off" outside it, "onset" and "silence" for the two loops that run with *)
(* the input stream open, "transcribing", "returned"), the accumulated     *)
(* silence in tenths of a second, and the text it returned.  windows is    *)
(* the number of check_interval windows in audio_data, level the rms of    *)
(* the last one polled, quiet the number of windows below the threshold    *)
(* polled in a row since speech started, and sent the number of windows    *)
(* handed to whisper.transcribe.                                           *)
PassiveOff ==
    [phase |-> "off", silence |-> 0, text |-> None,
     windows |-> 0, level |-> "none", quiet |-> 0, sent |-> 0]

(* Bookkeeping of one process_voice_input call: the transcript it started  *)
(* from, whether redo_last_message made the call, how often each engine    *)
(* and the on_chat_updated callback were invoked, what the engines         *)
(* returned, where a stop_processing took effect, which stage raised, and  *)
(* whether clear_history ran meanwhile.                                    *)
NewCall(h, redo) ==
    [h0 |-> h, redo |-> redo, gen |-> 0, synth |-> 0, play |-> 0,
     notified |-> 0, reply |-> None, audio |-> None,
     stopAt |-> "none", raised |-> "none", cleared |-> FALSE]

(* The bookkeeping is kept until the step after the call returned.         *)
Forget == IF pc = "idle" THEN NewCall(<<>>, FALSE) ELSE call

(* LlamaChat.messages is a sequence of <<role, content>>.  No ChatManager  *)
(* code reads it, so only the specification that is about the engine's    *)
(* context follows it (ContextSpec); in the others it stays Untracked.     *)
Untracked == <<<<"untracked", "">>>>

(* llama.py line 14: a new LlamaChat holds the system prompt only.         *)
NewContext(m) == IF m = Untracked THEN Untracked ELSE <<>>

(* llama.py lines 34 and 46: a message is appended.                        *)
ContextAppend(m, role, content) ==
    IF m = Untracked THEN Untracked ELSE Append(m, <<role, content>>)

(* ChatManager.__init__: the state after construction.                     *)
Constructed ==
    /\ chat_history = <<>>
    /\ scroll_offset = 0
    /\ recording_stream = NoneN
    /\ recording_frames = NoneN
    /\ recording_pyaudio = NoneN
    /\ last_user_message = None
    /\ processing = FALSE
    /\ is_ptt_mode = TRUE
    /\ sample_rate = NoneN
    /\ llm = None
    /\ tts = None
    /\ open_streams = {}
    /\ pc = "idle"
    /\ user_message = None
    /\ assistant_message = None
    /\ call = NewCall(<<>>, FALSE)
    /\ passive = PassiveOff
    /\ status = <<>>
    /\ updated = 0
    /\ ret = NoReturn

Init ==
    /\ Constructed
    /\ messages = Untracked

(* The same state with the engine's context followed; no LlamaChat exists  *)
(* yet, so it holds no message.                                            *)
ContextInit ==
    /\ Constructed
    /\ messages = <<>>

(* ----------------------- initialize_models ----------------------------- *)
(* Lines 57-85: the statuses initialize_models reports.                    *)
InitializeStatus(outcome) ==
    CASE outcome = "llm_fails" ->
           <<"Loading LLM model", "Error initializing models">>
      [] outcome = "tts_fails" ->
           <<"Loading LLM model", "Initializing TTS system...",
             "Error initializing models">>
      [] outcome = "whisper_fails" ->
           <<"Loading LLM model", "Initializing TTS system...",
             "Loading Whisper speech recognition...",
             "Error initializing models">>
      [] OTHER ->
           <<"Loading LLM model", "Initializing TTS system...",
             "Loading Whisper speech recognition...">>

InitializeModels(outcome) ==
    /\ pc = "idle"
    /\ llm' = IF outcome = "llm_fails" THEN llm ELSE "loaded"
    /\ messages' = IF outcome = "llm_fails" THEN messages ELSE NewContext(messages)
    /\ tts' = IF outcome \in {"llm_fails", "tts_fails"} THEN tts ELSE "loaded"
    /\ status' = InitializeStatus(outcome)
    /\ updated' = 0
    /\ UNCHANGED passive
    /\ ret' = Returned("initialize_models", IF outcome = "ok" THEN True ELSE False)
    /\ call' = Forget
    /\ UNCHANGED <<stateVars, captureVars, localVars, open_streams>>

(* ----------------------- process_voice_input --------------------------- *)
(* Lines 137-139: the normal end of the call; said are the status texts    *)
(* the step reported before it.                                            *)
ProcessFinish_KeepsProcessing(said) ==
    /\ processing' = processing
    /\ status' = said \o <<"Ready to chat!">>
    /\ updated' = 0
    /\ UNCHANGED passive
    /\ ret' = ReturnedData("process_voice_input", user_message, True, NoData)
    /\ pc' = "idle"
    /\ user_message' = None
    /\ assistant_message' = None

ProcessFinish(said) ==
    /\ processing' = FALSE
    /\ status' = said \o <<"Ready to chat!">>
    /\ updated' = 0
    /\ UNCHANGED passive
    /\ ret' = ReturnedData("process_voice_input", user_message, True, NoData)
    /\ pc' = "idle"
    /\ user_message' = None
    /\ assistant_message' = None

(* Lines 141-144: the except branch (processing was set on line 98).       *)
ProcessFail_NoReset(said, stage) ==
    /\ processing' = TRUE
    /\ status' = said \o <<"Error processing input">>
    /\ updated' = 0
    /\ UNCHANGED passive
    /\ ret' = ReturnedData("process_voice_input", user_message, False, NoData)
    /\ pc' = "idle"
    /\ user_message' = None
    /\ assistant_message' = None
    /\ call' = [call EXCEPT !.raised = stage]

ProcessFail_Retry(said, stage) ==
    /\ processing' = FALSE
    /\ status' = said \o <<"Error processing input">>
    /\ updated' = 0
    /\ UNCHANGED passive
    /\ ret' = NoReturn
    /\ pc' = IF stage = "gen" THEN "cb_user" ELSE "cb_asst"
    /\ UNCHANGED <<user_message, assistant_message>>
    /\ call' = [call EXCEPT !.raised = stage]

ProcessFail(said, stage) ==
    /\ processing' = FALSE
    /\ status' = said \o <<"Error processing input">>
    /\ updated' = 0
    /\ UNCHANGED passive
    /\ ret' = ReturnedData("process_voice_input", user_message, False, NoData)
    /\ pc' = "idle"
    /\ user_message' = None
    /\ assistant_message' = None
    /\ call' = [call EXCEPT !.raised = stage]

(* Line 91: "if not user_message".                                         *)
Rejected_OnlyNone(t) == t = None

Rejected(t) == t \in Falsy

(* Line 94: "self.state.last_user_message = user_message".                 *)
LastUserMessage_KeepsFirst(t) == IF last_user_message = None THEN t ELSE last_user_message

LastUserMessage(t) == t

(* Lines 89-97: the falsy check, the user turn and its notification.       *)
SubmitText(t) ==
    /\ pc = "idle"
    /\ IF Rejected(t)
       THEN /\ updated' = 0
            /\ ret' = ReturnedData("process_voice_input", t, False, NoData)
            /\ status' = <<>>
            /\ call' = Forget
            /\ UNCHANGED <<stateVars, captureVars, engineVars, localVars,
                           open_streams>>
       ELSE /\ Len(chat_history) + 2 <= MaxHist
            /\ last_user_message' = LastUserMessage(t)
            /\ chat_history' = Append(chat_history, <<"You", t>>)
            /\ user_message' = t
            /\ call' = [NewCall(chat_history, FALSE) EXCEPT !.notified = 1]
            /\ pc' = "cb_user"
            /\ status' = <<>>
            /\ updated' = 1
            /\ ret' = NoReturn
            /\ UNCHANGED <<scroll_offset, processing, is_ptt_mode, captureVars,
                           engineVars, assistant_message, open_streams>>

(* process_voice_input(t) called with text obtained from a push-to-talk    *)
(* capture.                                                                *)
ProcessBegin(t) ==
    /\ SubmitText(t)
    /\ UNCHANGED passive

(* Lines 98-103: processing is set and LlamaChat.chat is entered; with no  *)
(* model loaded the attribute access raises inside the try.                *)
ProcessThinking ==
    /\ pc = "cb_user"
    /\ IF llm = None
       THEN /\ ProcessFail(<<"Thinking...">>, "gen")
            /\ UNCHANGED <<chat_history, scroll_offset, last_user_message,
                           is_ptt_mode, captureVars, engineVars, open_streams>>
       ELSE /\ messages = Untracked \/ Len(messages) + 2 <= MaxContext
            /\ processing' = TRUE
            /\ messages' = ContextAppend(messages, "user", user_message)
            /\ status' = <<"Thinking...">>
            /\ updated' = 0
            /\ UNCHANGED passive
            /\ ret' = NoReturn
            /\ pc' = "gen"
            /\ call' = [call EXCEPT !.gen = @ + 1]
            /\ UNCHANGED <<chat_history, scroll_offset, last_user_message,
                           is_ptt_mode, captureVars, llm, tts, user_message,
                           assistant_message, open_streams>>

(* LlamaChat.chat returns a (the reply, or LLM_ERROR when the completion   *)
(* raised); lines 104-106 append the assistant turn and notify.            *)
GenReturn_NoAppend(a) ==
    /\ pc = "gen"
    /\ assistant_message' = a
    /\ call' = [call EXCEPT !.reply = a]
    /\ pc' = "cb_asst"
    /\ status' = <<>>
    /\ updated' = 0
    /\ UNCHANGED passive
    /\ ret' = NoReturn
    /\ UNCHANGED <<stateVars, captureVars, engineVars, user_message,
                   open_streams>>

GenReturn_DropIfStopped(a) ==
    /\ pc = "gen"
    /\ assistant_message' = a
    /\ chat_history' = IF processing
                       THEN Append(chat_history, <<"Assistant", a>>)
                       ELSE chat_history
    /\ call' = IF processing
               THEN [call EXCEPT !.notified = @ + 1, !.reply = a]
               ELSE [call EXCEPT !.reply = a]
    /\ pc' = "cb_asst"
    /\ status' = <<>>
    /\ updated' = IF processing THEN 1 ELSE 0
    /\ UNCHANGED passive
    /\ ret' = NoReturn
    /\ UNCHANGED <<scroll_offset, last_user_message, processing, is_ptt_mode,
                   captureVars, engineVars, user_message, open_streams>>

GenReturn(a) ==
    /\ pc = "gen"
    /\ assistant_message' = a
    /\ messages' = IF a = LLM_ERROR THEN messages
                   ELSE ContextAppend(messages, "assistant", a)
    /\ chat_history' = Append(chat_history, <<"Assistant", a>>)
    /\ call' = [call EXCEPT !.notified = @ + 1, !.reply = a]
    /\ pc' = "cb_asst"
    /\ status' = <<>>
    /\ updated' = 1
    /\ UNCHANGED passive
    /\ ret' = NoReturn
    /\ UNCHANGED <<scroll_offset, last_user_message, processing, is_ptt_mode,
                   captureVars, llm, tts, user_message, open_streams>>

(* Line 108: "if self.state.processing".                                   *)
NotStopped_Unchecked == TRUE

NotStopped == processing

(* Lines 108-131: the cancellation check and the call of Kokoro.create or  *)
(* create_with_blend; with no TTS loaded the attribute access raises.      *)
ProcessSynthesize ==
    /\ pc = "cb_asst"
    /\ IF NotStopped
       THEN IF tts = None
            THEN /\ ProcessFail(<<"Synthesizing speech...">>, "synth")
                 /\ UNCHANGED <<chat_history, scroll_offset, last_user_message,
                                is_ptt_mode, captureVars, engineVars,
                                open_streams>>
            ELSE /\ status' = <<"Synthesizing speech...">>
                 /\ updated' = 0
                 /\ UNCHANGED passive
                 /\ ret' = NoReturn
                 /\ pc' = "synth"
                 /\ call' = [call EXCEPT !.synth = @ + 1]
                 /\ UNCHANGED <<stateVars, captureVars, engineVars,
                                user_message, assistant_message, open_streams>>
       ELSE /\ ProcessFinish(<<>>)
            /\ UNCHANGED <<chat_history, scroll_offset, last_user_message,
                           is_ptt_mode, captureVars, engineVars, call,
                           open_streams>>

(* Line 133: "if audio_data is not None and self.state.processing".        *)
ShouldPlay_Inverted(audio_data) == audio_data = None /\ processing

ShouldPlay_IgnoresNone(audio_data) == processing

ShouldPlay(audio_data) == audio_data # None /\ processing

(* Kokoro.create returns audio_data (None when it caught an exception);    *)
(* lines 133-135 start playback unless cancelled.                          *)
SynthReturn(audio_data) ==
    /\ pc = "synth"
    /\ IF ShouldPlay(audio_data)
       THEN /\ status' = <<"Playing response...">>
            /\ updated' = 0
            /\ UNCHANGED passive
            /\ ret' = NoReturn
            /\ pc' = "play"
            /\ call' = [call EXCEPT !.play = @ + 1, !.audio = audio_data]
            /\ UNCHANGED <<stateVars, captureVars, engineVars, user_message,
                           assistant_message, open_streams>>
       ELSE /\ ProcessFinish(<<>>)
            /\ call' = [call EXCEPT !.audio = audio_data]
            /\ UNCHANGED <<chat_history, scroll_offset, last_user_message,
                           is_ptt_mode, captureVars, engineVars,
                           open_streams>>

(* whisper.play_audio returns (it catches its own exceptions).             *)
PlayReturn ==
    /\ pc = "play"
    /\ ProcessFinish(<<>>)
    /\ UNCHANGED <<chat_history, scroll_offset, last_user_message, is_ptt_mode,
                   captureVars, engineVars, call, open_streams>>

(* ------------------------- whisper.py ---------------------------------- *)
(* record_audio opens a PyAudio input stream, or returns four Nones when   *)
(* the device cannot be opened.  The id of the new stream is the least one *)
(* not open.                                                               *)
NewStream == CHOOSE i \in 1..(MaxStreams + 1) :
                 /\ i \notin open_streams
                 /\ \A j \in 1..(i - 1) : j \in open_streams

(* whisper.stop_recording(stream, frames, p): the audio it returns (the    *)
(* number of frames joined) or None.  An open stream stops and closes;     *)
(* raises: the library refuses to stop a stream that is already closed and *)
(* the except branch runs.                                                 *)
WhisperStopResult(stream, frames, p, raises) ==
    IF stream = NoneN \/ p = NoneN THEN NoneN
    ELSE IF stream \notin open_streams /\ raises THEN NoneN
    ELSE IF frames = NoneN \/ frames = 0 THEN NoneN
    ELSE frames

WhisperStopStreams(stream, p) ==
    IF stream = NoneN \/ p = NoneN THEN open_streams
    ELSE open_streams \ {stream}

(* The stream callback of record_audio appends one frame.                  *)
FrameCallback ==
    /\ recording_stream \in open_streams
    /\ recording_frames # NoneN
    /\ recording_frames < MaxFrames
    /\ recording_frames' = recording_frames + 1
    /\ status' = <<>>
    /\ updated' = 0
    /\ UNCHANGED passive
    /\ ret' = NoReturn
    /\ call' = Forget
    /\ UNCHANGED <<stateVars, recording_stream, recording_pyaudio, sample_rate,
                   engineVars, localVars, open_streams>>

(* ----------------------- start_recording ------------------------------- *)
(* Line 148: the guard of start_recording.                                 *)
StartRefused_OnlyProcessing == processing

StartRefused_OnlyStream == recording_stream # NoneN

StartRefused == recording_stream # NoneN \/ processing

(* Lines 151-155: record_audio returned no stream.                         *)
StartFailed_KeepsHandle ==
    /\ status' = <<"Error: Could not start recording">>
    /\ recording_stream' = NewStream
    /\ updated' = 0
    /\ UNCHANGED passive
    /\ ret' = Returned("start_recording", False)
    /\ call' = Forget
    /\ UNCHANGED <<stateVars, recording_frames, recording_pyaudio, sample_rate,
                   engineVars, localVars, open_streams>>

StartFailed ==
    /\ status' = <<"Error: Could not start recording">>
    /\ updated' = 0
    /\ UNCHANGED passive
    /\ ret' = Returned("start_recording", False)
    /\ call' = Forget
    /\ UNCHANGED <<stateVars, captureVars, engineVars, localVars, open_streams>>

StartRecording(device_ok) ==
    IF StartRefused
    THEN /\ updated' = 0
         /\ UNCHANGED passive
         /\ ret' = Returned("start_recording", False)
         /\ status' = <<>>
         /\ call' = Forget
         /\ UNCHANGED <<stateVars, captureVars, engineVars, localVars,
                        open_streams>>
    ELSE IF ~device_ok
    THEN StartFailed
    ELSE /\ Cardinality(open_streams) < MaxStreams
         /\ recording_stream' = NewStream
         /\ recording_frames' = 0
         /\ recording_pyaudio' = NewStream
         /\ sample_rate' = SAMPLE_RATE
         /\ open_streams' = open_streams \cup {NewStream}
         /\ updated' = 0
         /\ UNCHANGED passive
         /\ ret' = Returned("start_recording", True)
         /\ status' = <<>>
         /\ call' = Forget
         /\ UNCHANGED <<stateVars, engineVars, localVars>>

(* ----------------------- stop_recording -------------------------------- *)
(* Line 175: the sample rate is read before the recording state is reset.  *)
SavedSampleRate_AfterReset == NoneN

SavedSampleRate == sample_rate

StopRecording(raises) ==
    IF recording_stream = NoneN
    THEN /\ updated' = 0
         /\ UNCHANGED passive
         /\ ret' = Returned("stop_recording", None)
         /\ status' = <<>>
         /\ call' = Forget
         /\ UNCHANGED <<stateVars, captureVars, engineVars, localVars,
                        open_streams>>
    ELSE LET audio_data == WhisperStopResult(recording_stream, recording_frames,
                                             recording_pyaudio, raises)
         IN /\ status' = <<"Processing audio...">>
            /\ open_streams' = WhisperStopStreams(recording_stream,
                                                  recording_pyaudio)
            /\ recording_stream' = NoneN
            /\ recording_frames' = NoneN
            /\ recording_pyaudio' = NoneN
            /\ sample_rate' = NoneN
            /\ updated' = 0
            /\ UNCHANGED passive
            /\ ret' = IF audio_data # NoneN /\ audio_data > 0
                       THEN ReturnedData("stop_recording", None, "audio",
                                         <<audio_data, SavedSampleRate>>)
                       ELSE Returned("stop_recording", None)
            /\ call' = Forget
            /\ UNCHANGED <<stateVars, engineVars, localVars>>

(* ----------------------- clear_history --------------------------------- *)
ClearHistory_ForgetsLast ==
    /\ chat_history' = <<>>
    /\ scroll_offset' = 0
    /\ last_user_message' = None
    /\ status' = <<"Chat history cleared!">>
    /\ call' = [Forget EXCEPT !.cleared = (pc # "idle")]
    /\ updated' = 1
    /\ UNCHANGED passive
    /\ ret' = Returned("clear_history", None)
    /\ UNCHANGED <<processing, is_ptt_mode, captureVars, engineVars, pc,
                   user_message, assistant_message, open_streams>>

ClearHistory_KeepsScroll ==
    /\ chat_history' = <<>>
    /\ status' = <<"Chat history cleared!">>
    /\ call' = [Forget EXCEPT !.cleared = (pc # "idle")]
    /\ updated' = 1
    /\ UNCHANGED passive
    /\ ret' = Returned("clear_history", None)
    /\ UNCHANGED <<scroll_offset, last_user_message, processing, is_ptt_mode,
                   captureVars, engineVars, pc, user_message, assistant_message,
                   open_streams>>

ClearHistory ==
    /\ chat_history' = <<>>
    /\ scroll_offset' = 0
    /\ status' = <<"Chat history cleared!">>
    /\ call' = [Forget EXCEPT !.cleared = (pc # "idle")]
    /\ updated' = 1
    /\ UNCHANGED passive
    /\ ret' = Returned("clear_history", None)
    /\ UNCHANGED <<last_user_message, processing, is_ptt_mode, captureVars,
                   engineVars, pc, user_message, assistant_message,
                   open_streams>>

(* ----------------------- toggle_ptt_mode ------------------------------- *)
TogglePttMode ==
    /\ is_ptt_mode' = ~is_ptt_mode
    /\ status' = IF is_ptt_mode' THEN <<"Switched to Push-to-Talk mode">>
                                 ELSE <<"Switched to Passive mode">>
    /\ updated' = 0
    /\ UNCHANGED passive
    /\ ret' = Returned("toggle_ptt_mode", None)
    /\ call' = Forget
    /\ UNCHANGED <<chat_history, scroll_offset, last_user_message, processing,
                   captureVars, engineVars, localVars, open_streams>>

(* ----------------------- stop_processing ------------------------------- *)
(* Line 203: "if self.state.processing".                                   *)
StopApplies_Always == TRUE

StopApplies == processing

StopProcessing ==
    /\ updated' = 0
    /\ UNCHANGED passive
    /\ ret' = Returned("stop_processing", None)
    /\ IF StopApplies
       THEN /\ processing' = FALSE
            /\ status' = <<"Processing stopped!">>
            /\ call' = [call EXCEPT !.stopAt = pc]
            /\ UNCHANGED <<chat_history, scroll_offset, last_user_message,
                           is_ptt_mode, captureVars, engineVars, pc,
                           user_message, assistant_message, open_streams>>
       ELSE /\ status' = <<>>
            /\ call' = Forget
            /\ UNCHANGED <<stateVars, captureVars, engineVars, localVars,
                           open_streams>>

(* ----------------------- redo_last_message ----------------------------- *)
(* The accepted branch truncates the transcript, notifies, and runs        *)
(* process_voice_input(last_user_message) up to its first notification.    *)
(* Line 212: "chat_history[:-2] if len(chat_history) >= 2 else []".        *)
DropLastExchange_One(h) == IF Len(h) >= 1 THEN SubSeq(h, 1, Len(h) - 1) ELSE <<>>

DropLastExchange(h) == IF Len(h) >= 2 THEN SubSeq(h, 1, Len(h) - 2) ELSE <<>>

(* Line 209: "if not self.state.last_user_message or self.state.processing". *)
RedoRefused_OnlyProcessing == processing

RedoRefused == last_user_message \in Falsy \/ processing

RedoLastMessage ==
    IF RedoRefused
    THEN /\ updated' = 0
         /\ UNCHANGED passive
         /\ ret' = Returned("redo_last_message", False)
         /\ status' = <<>>
         /\ call' = Forget
         /\ UNCHANGED <<stateVars, captureVars, engineVars, localVars,
                        open_streams>>
    ELSE /\ pc = "idle"
         /\ chat_history' = Append(DropLastExchange(chat_history),
                                   <<"You", last_user_message>>)
         /\ user_message' = last_user_message
         /\ call' = [NewCall(DropLastExchange(chat_history), TRUE)
                       EXCEPT !.notified = 2]
         /\ pc' = "cb_user"
         /\ status' = <<>>
         /\ updated' = 2
         /\ UNCHANGED passive
         /\ ret' = NoReturn
         /\ UNCHANGED <<scroll_offset, last_user_message, processing,
                        is_ptt_mode, captureVars, engineVars,
                        assistant_message, open_streams>>

(* ----------------------- cleanup --------------------------------------- *)
Cleanup ==
    /\ open_streams' = IF recording_stream # NoneN
                       THEN WhisperStopStreams(recording_stream,
                                               recording_pyaudio)
                       ELSE open_streams
    /\ updated' = 0
    /\ UNCHANGED passive
    /\ ret' = Returned("cleanup", None)
    /\ status' = <<>>
    /\ call' = Forget
    /\ UNCHANGED <<stateVars, captureVars, engineVars, localVars>>

(* ----------------------- chat loop: passive mode ----------------------- *)
(* chat_ui.py lines 83-84: with no push-to-talk key handled, the loop      *)
(* enters handle_passive_recording when the mode is passive and nothing is *)
(* processing.  passive_record_and_transcribe reports two statuses and     *)
(* opens an sd.InputStream; when the device cannot be opened the exception *)
(* is caught and "" is returned.                                           *)
PassiveOpen(device_ok) ==
    /\ pc = "idle"
    /\ passive.phase = "off"
    /\ ~is_ptt_mode
    /\ ~processing
    /\ passive' = IF device_ok
                  THEN [PassiveOff EXCEPT !.phase = "onset"]
                  ELSE [PassiveOff EXCEPT !.phase = "returned", !.text = ""]
    /\ status' = <<"Waiting before recording...", "Recording...">>
    /\ updated' = 0
    /\ ret' = NoReturn
    /\ call' = Forget
    /\ UNCHANGED <<stateVars, captureVars, engineVars, localVars, open_streams>>

(* One check_interval of the first loop: speech starts with a window whose *)
(* rms is above the threshold.                                             *)
(* Line 166: "if rms > silence_threshold".                                 *)
OnsetDetected_AtThreshold(level) == level # "below"

OnsetDetected(level) == level = "above"

PassiveOnset(level) ==
    /\ passive.phase = "onset"
    /\ passive.windows < MaxWindows
    /\ passive' = [passive EXCEPT
                     !.phase = IF OnsetDetected(level) THEN "silence" ELSE "onset",
                     !.level = level,
                     !.windows = @ + 1]
    /\ status' = <<>>
    /\ updated' = 0
    /\ ret' = NoReturn
    /\ call' = Forget
    /\ UNCHANGED <<stateVars, captureVars, engineVars, localVars, open_streams>>

(* One check_interval of the second loop: a window below the threshold     *)
(* adds check_interval to the accumulated silence, any other sets it to    *)
(* 0.3; the loop ends, the stream closes and transcription starts when the *)
(* accumulated silence reaches silence_duration_required.                  *)
AccumulatedSilence_Resets(acc, level) ==
    IF level = "below" THEN CHECK_INTERVAL ELSE SILENCE_RESTART

AccumulatedSilence_RestartsAtInterval(acc, level) ==
    IF level = "below" THEN acc + CHECK_INTERVAL ELSE CHECK_INTERVAL

AccumulatedSilence(acc, level) ==
    IF level = "below" THEN acc + CHECK_INTERVAL ELSE SILENCE_RESTART

PassiveSilence(level) ==
    /\ passive.phase = "silence"
    /\ passive.windows < MaxWindows
    /\ LET acc == AccumulatedSilence(passive.silence, level)
           polled == [passive EXCEPT
                        !.silence = acc,
                        !.level = level,
                        !.quiet = IF level = "below" THEN @ + 1 ELSE 0,
                        !.windows = @ + 1]
       IN IF acc >= SILENCE_DURATION_REQUIRED
          THEN /\ passive' = [polled EXCEPT !.phase = "transcribing",
                                            !.sent = polled.windows]
               /\ status' = <<"Transcribing...">>
          ELSE /\ passive' = polled
               /\ status' = <<>>
    /\ updated' = 0
    /\ ret' = NoReturn
    /\ call' = Forget
    /\ UNCHANGED <<stateVars, captureVars, engineVars, localVars, open_streams>>

(* whisper.transcribe returns the text ("" when it failed) and             *)
(* handle_passive_recording returns it.                                    *)
TranscribedStatus(text) ==
    CASE text = "hello" -> "Transcribed: hello"
      [] text = "again" -> "Transcribed: again"
      [] OTHER -> "Transcribed: "

PassiveTranscribed(text) ==
    /\ passive.phase = "transcribing"
    /\ passive' = [PassiveOff EXCEPT !.phase = "returned", !.text = text]
    /\ status' = <<TranscribedStatus(text)>>
    /\ updated' = 0
    /\ ret' = NoReturn
    /\ call' = Forget
    /\ UNCHANGED <<stateVars, captureVars, engineVars, localVars, open_streams>>

(* chat_ui.py line 85: the loop hands the text to process_voice_input.     *)
PassiveSubmit ==
    /\ passive.phase = "returned"
    /\ passive' = PassiveOff
    /\ SubmitText(passive.text)

(* ----------------------- chat loop: scrolling -------------------------- *)
(* KEY_UP and KEY_DOWN, read by the chat loop between two calls.           *)
ScrollUp ==
    /\ pc = "idle"
    /\ passive.phase = "off"
    /\ scroll_offset' = IF scroll_offset < Len(chat_history) * 2
                        THEN scroll_offset + 1
                        ELSE scroll_offset
    /\ status' = <<>>
    /\ updated' = 0
    /\ UNCHANGED passive
    /\ ret' = Returned("KEY_UP", None)
    /\ call' = Forget
    /\ UNCHANGED <<chat_history, last_user_message, processing, is_ptt_mode,
                   captureVars, engineVars, localVars, open_streams>>

ScrollDown ==
    /\ pc = "idle"
    /\ passive.phase = "off"
    /\ scroll_offset' = IF scroll_offset > 0
                        THEN scroll_offset - 1
                        ELSE scroll_offset
    /\ status' = <<>>
    /\ updated' = 0
    /\ UNCHANGED passive
    /\ ret' = Returned("KEY_DOWN", None)
    /\ call' = Forget
    /\ UNCHANGED <<chat_history, last_user_message, processing, is_ptt_mode,
                   captureVars, engineVars, localVars, open_streams>>

(* ----------------------- header buttons (curses.py) --------------------- *)
(* Texts are sequences of characters.  Lines 320-327: the button labels.   *)
ClearChatLabel == <<"[", " ", "C", "l", "e", "a", "r", " ", "C", "h", "a", "t", " ", "]">>
RestartLabel == <<"[", " ", "R", "e", "s", "t", "a", "r", "t", " ", "]">>
SettingsLabel == <<"[", " ", "S", "e", "t", "t", "i", "n", "g", "s", " ", "]">>
RedoLastLabel == <<"[", " ", "R", "e", "d", "o", " ", "L", "a", "s", "t", " ", "]">>
StopLabel == <<"[", " ", "S", "t", "o", "p", " ", "]">>
ModeLabel(ptt) ==
    <<"[", " ">>
      \o (IF ptt THEN <<"P", "T", "T">> ELSE <<"P", "a", "s", "s", "i", "v", "e">>)
      \o <<" ", "M", "o", "d", "e", " ", "]">>

Buttons(ptt) ==
    <<ClearChatLabel, RestartLabel, SettingsLabel, RedoLastLabel, StopLabel,
      ModeLabel(ptt)>>

(* str.strip(chars), str.strip() and str.lower() as line 333 applies them. *)
RECURSIVE LStrip(_, _)
LStrip(s, chars) ==
    IF s # <<>> /\ Head(s) \in chars THEN LStrip(Tail(s), chars) ELSE s

RECURSIVE RStrip(_, _)
RStrip(s, chars) ==
    IF s # <<>> /\ s[Len(s)] \in chars
    THEN RStrip(SubSeq(s, 1, Len(s) - 1), chars)
    ELSE s

Strip(s, chars) == RStrip(LStrip(s, chars), chars)

LowerChar(c) ==
    CASE c = "C" -> "c" [] c = "L" -> "l" [] c = "M" -> "m" [] c = "P" -> "p"
      [] c = "R" -> "r" [] c = "S" -> "s" [] c = "T" -> "t" [] OTHER -> c

Lower(s) == [i \in 1..Len(s) |-> LowerChar(s[i])]

(* Line 333: "btn.strip('[]').strip().lower()".                            *)
ButtonKey(btn) == Lower(Strip(Strip(btn, {"[", "]"}), {" "}))

(* Lines 329-335: the column where button number i starts.                 *)
RECURSIVE ButtonColumn(_, _)
ButtonColumn(buttons, i) ==
    IF i = 1 THEN 2
    ELSE ButtonColumn(buttons, i - 1) + Len(buttons[i - 1]) + 2

(* update_header: button_positions of the header last drawn, as the set of *)
(* its items (key, (y, x, width)).  The chat loop redraws the header each  *)
(* time the mode changes (chat_ui.py lines 24, 49, 65, 69).                *)
ButtonPositions(ptt) ==
    {<<ButtonKey(Buttons(ptt)[i]),
       <<1, ButtonColumn(Buttons(ptt), i), Len(Buttons(ptt)[i])>>>> :
         i \in 1..Len(Buttons(ptt))}

(* Lines 431-436: the key of the button under the mouse, NoButton (None)   *)
(* when there is none.                                                     *)
NoButton == <<>>
HandleButtonClick(mouse_y, mouse_x) ==
    LET hit == {item \in ButtonPositions(is_ptt_mode) :
                   /\ mouse_y = item[2][1]
                   /\ item[2][2] <= mouse_x
                   /\ mouse_x < item[2][2] + item[2][3]}
    IN IF hit = {} THEN NoButton ELSE (CHOOSE item \in hit : TRUE)[1]

(* The header is one line of buttons; the mouse is on it or on the line    *)
(* above, at any column up to the end of the last button.                  *)
HeaderWidth ==
    ButtonColumn(Buttons(FALSE), Len(Buttons(FALSE))) + Len(ModeLabel(FALSE))
MouseRows == {0, 1}
MouseColumns == 0..HeaderWidth

(* ----------------------- chat loop (chat_ui.py) ------------------------- *)
(* The identifiers the loop compares the clicked button with, lines 36-57. *)
ClearId == <<"c", "l", "e", "a", "r">>
RestartId == <<"r", "e", "s", "t", "a", "r", "t">>
SettingsId == <<"s", "e", "t", "t", "i", "n", "g", "s">>
ModeId == <<"m", "o", "d", "e">>
RedoId == <<"r", "e", "d", "o">>
StopId == <<"s", "t", "o", "p">>
LoopIds == {ClearId, RestartId, SettingsId, ModeId, RedoId, StopId}

(* What getch returns: NO_KEY is -1, returned only with nodelay(1), which  *)
(* lines 50-53 set exactly in passive mode.                                *)
Keys == {"KEY_MOUSE", "SPACE", "ESC", "KEY_UP", "KEY_DOWN", "OTHER", "NO_KEY"}

(* start_chat returned: initialize_models failed at line 20, the settings  *)
(* button returned at line 46, or ESC broke out of the loop at line 92.    *)
SessionEnded ==
    \/ ret.op = "initialize_models" /\ ret.val = False
    \/ ret.op = "start_chat"
    \/ ret.op = "cleanup"

(* Line 71: stop_recording returned audio that is not yet transcribed.     *)
AudioPending == ret.op = "stop_recording" /\ ret.data # NoData

(* The loop is at getch: the models are loaded and no call is in progress. *)
AtGetch ==
    /\ llm # None
    /\ tts # None
    /\ ~SessionEnded
    /\ ~AudioPending
    /\ pc = "idle"
    /\ passive.phase = "off"

(* Lines 19-21: the models are loaded before the loop is entered.          *)
StartChat(outcome) ==
    /\ llm = None
    /\ ret.op = "none"
    /\ InitializeModels(outcome)

(* An iteration that calls nothing: a key no branch handles, a click on no *)
(* button or on one whose key the loop does not know, or curses.error.     *)
KeyIgnored ==
    /\ ret' = Returned("getch", None)
    /\ status' = <<>>
    /\ updated' = 0
    /\ call' = Forget
    /\ UNCHANGED <<stateVars, captureVars, engineVars, localVars, open_streams,
                   passive>>

(* Lines 39-44: initialize_models, and clear_history when it succeeded.    *)
RestartClicked(outcome) ==
    /\ llm' = IF outcome = "llm_fails" THEN llm ELSE "loaded"
    /\ messages' = IF outcome = "llm_fails" THEN messages ELSE NewContext(messages)
    /\ tts' = IF outcome \in {"llm_fails", "tts_fails"} THEN tts ELSE "loaded"
    /\ IF outcome = "ok"
       THEN /\ chat_history' = <<>>
            /\ scroll_offset' = 0
            /\ status' = InitializeStatus(outcome) \o <<"Chat history cleared!">>
            /\ updated' = 1
       ELSE /\ status' = InitializeStatus(outcome)
            /\ updated' = 0
            /\ UNCHANGED <<chat_history, scroll_offset>>
    /\ ret' = Returned("restart", IF outcome = "ok" THEN True ELSE False)
    /\ call' = Forget
    /\ UNCHANGED <<last_user_message, processing, is_ptt_mode, captureVars,
                   localVars, open_streams, passive>>

(* Lines 45-46: the settings button returns from start_chat.               *)
SettingsClicked ==
    /\ ret' = Returned("start_chat", None)
    /\ status' = <<>>
    /\ updated' = 0
    /\ call' = Forget
    /\ UNCHANGED <<stateVars, captureVars, engineVars, localVars, open_streams,
                   passive>>

(* Lines 36-58: the branch taken for the clicked button.                   *)
ButtonClicked(clicked) ==
    CASE clicked = ClearId -> ClearHistory
      [] clicked = RestartId ->
            \E o \in {"ok", "llm_fails", "tts_fails", "whisper_fails"} :
                RestartClicked(o)
      [] clicked = SettingsId -> SettingsClicked
      [] clicked = ModeId -> TogglePttMode
      [] clicked = RedoId -> RedoLastMessage
      [] clicked = StopId -> StopProcessing
      [] OTHER -> KeyIgnored

(* Lines 62-69: SPACE starts a push-to-talk capture or stops the one held. *)
SpacePressed ==
    IF recording_stream = NoneN
    THEN \E device_ok \in BOOLEAN : StartRecording(device_ok)
    ELSE \E raises \in BOOLEAN : StopRecording(raises)

(* Lines 71-76: the audio stop_recording returned is transcribed and the   *)
(* text handed to process_voice_input.                                     *)
TranscribeSubmit ==
    /\ AudioPending
    /\ \E t \in UserTexts \cup {""} : ProcessBegin(t)

(* Lines 31-102: one iteration of the loop for the key getch returned and  *)
(* the button handle_button_click found; the branches are tried in the     *)
(* order of the if/elif chain.                                             *)
Dispatch(key, clicked) ==
    /\ AtGetch
    /\ key = "NO_KEY" => ~is_ptt_mode
    /\ IF key = "KEY_MOUSE" THEN ButtonClicked(clicked)
       ELSE IF key = "SPACE" /\ is_ptt_mode THEN SpacePressed
       ELSE IF ~is_ptt_mode /\ ~processing
            THEN \E device_ok \in BOOLEAN : PassiveOpen(device_ok)
       ELSE IF key = "ESC" THEN Cleanup
       ELSE IF key = "KEY_UP" THEN ScrollUp
       ELSE IF key = "KEY_DOWN" THEN ScrollDown
       ELSE KeyIgnored

(* Lines 29-35: the key is read and a click is looked up in the header.    *)
ChatLoop(key, mouse_y, mouse_x) ==
    Dispatch(key, HandleButtonClick(mouse_y, mouse_x))

(* ----------------------- specifications -------------------------------- *)
(* Everything the session does before shutdown.                            *)
SessionNext ==
    \/ \E o \in {"ok", "llm_fails", "tts_fails", "whisper_fails"} : InitializeModels(o)
    \/ \E t \in UserTexts \cup Falsy : ProcessBegin(t)
    \/ ProcessThinking
    \/ \E a \in Replies \cup {LLM_ERROR} : GenReturn(a)
    \/ ProcessSynthesize
    \/ \E audio_data \in {"audio", None} : SynthReturn(audio_data)
    \/ PlayReturn
    \/ FrameCallback
    \/ \E device_ok \in BOOLEAN : StartRecording(device_ok)
    \/ \E raises \in BOOLEAN : StopRecording(raises)
    \/ ClearHistory
    \/ TogglePttMode
    \/ StopProcessing
    \/ RedoLastMessage

Next ==
    \/ SessionNext
    \/ Cleanup

Spec == Init /\ [][Next]_vars

SessionSpec == Init /\ [][SessionNext]_vars

(* A call of process_voice_input in progress continues: the engines return *)
(* and the caller's thread is not starved.                                 *)
PipelineStep ==
    \/ ProcessThinking
    \/ \E a \in Replies \cup {LLM_ERROR} : GenReturn(a)
    \/ ProcessSynthesize
    \/ \E audio_data \in {"audio", None} : SynthReturn(audio_data)
    \/ PlayReturn

(* The operations that read or write processing and the transcript, with   *)
(* the turn in progress running to its end.                                *)
TurnNext ==
    \/ \E o \in {"ok", "llm_fails", "tts_fails", "whisper_fails"} : InitializeModels(o)
    \/ \E t \in UserTexts \cup Falsy : ProcessBegin(t)
    \/ PipelineStep
    \/ ClearHistory
    \/ StopProcessing
    \/ RedoLastMessage

TurnFairSpec == Init /\ [][TurnNext]_vars /\ WF_vars(PipelineStep)

(* The turn operations together with the scrolling of the transcript view. *)
ViewNext ==
    \/ TurnNext
    \/ ScrollUp
    \/ ScrollDown

ViewSpec == Init /\ [][ViewNext]_vars

(* The chat loop with both input modes: push-to-talk captures, the mode    *)
(* button, passive captures, and the turns they submit.                    *)
MicNext ==
    \/ \E o \in {"ok", "llm_fails", "tts_fails", "whisper_fails"} : InitializeModels(o)
    \/ \E device_ok \in BOOLEAN : StartRecording(device_ok)
    \/ \E raises \in BOOLEAN : StopRecording(raises)
    \/ FrameCallback
    \/ TogglePttMode
    \/ \E device_ok \in BOOLEAN : PassiveOpen(device_ok)
    \/ \E level \in Levels : PassiveOnset(level)
    \/ \E level \in Levels : PassiveSilence(level)
    \/ \E text \in UserTexts \cup {""} : PassiveTranscribed(text)
    \/ PassiveSubmit
    \/ PipelineStep
    \/ StopProcessing

MicSpec == Init /\ [][MicNext]_vars

(* The chat loop in passive mode alone: the mode button, the passive       *)
(* capture and the turn it submits.                                        *)
PassiveNext ==
    \/ \E o \in {"ok", "llm_fails", "tts_fails", "whisper_fails"} : InitializeModels(o)
    \/ TogglePttMode
    \/ \E device_ok \in BOOLEAN : PassiveOpen(device_ok)
    \/ \E level \in Levels : PassiveOnset(level)
    \/ \E level \in Levels : PassiveSilence(level)
    \/ \E text \in UserTexts \cup {""} : PassiveTranscribed(text)
    \/ PassiveSubmit
    \/ PipelineStep

PassiveSpec == Init /\ [][PassiveNext]_vars

(* The passive chat loop with its polling loops running: each time.sleep   *)
(* of passive_record_and_transcribe returns and the next window is polled, *)
(* and whisper.transcribe returns.                                         *)
PassiveFairSpec ==
    /\ Init
    /\ [][PassiveNext]_vars
    /\ WF_vars(\E level \in Levels : PassiveOnset(level))
    /\ WF_vars(\E level \in Levels : PassiveSilence(level))
    /\ WF_vars(\E text \in UserTexts \cup {""} : PassiveTranscribed(text))

(* start_chat with the header as ChatUI draws it: the models are loaded,   *)
(* then the loop reads keys and mouse clicks; a push-to-talk capture       *)
(* records meanwhile and a turn runs to its end before the next getch.     *)
(* No click changes the mode here (see C34), so no passive capture starts. *)
HeaderNext ==
    \/ \E o \in {"ok", "llm_fails", "tts_fails", "whisper_fails"} : StartChat(o)
    \/ \E key \in Keys \ {"KEY_MOUSE"} : ChatLoop(key, 0, 0)
    \/ \E mouse_y \in MouseRows, mouse_x \in MouseColumns :
           ChatLoop("KEY_MOUSE", mouse_y, mouse_x)
    \/ (~SessionEnded /\ FrameCallback)
    \/ TranscribeSubmit
    \/ PipelineStep

HeaderSpec == Init /\ [][HeaderNext]_vars

(* The chat loop by itself, lines 28-102 of chat_ui.py: the clicked button *)
(* is any of the identifiers the loop tests for, or none.                  *)
LoopNext ==
    \/ \E o \in {"ok", "llm_fails", "tts_fails", "whisper_fails"} : StartChat(o)
    \/ \E key \in Keys, clicked \in LoopIds \cup {NoButton} : Dispatch(key, clicked)
    \/ (~SessionEnded /\ FrameCallback)
    \/ TranscribeSubmit
    \/ \E level \in Levels : PassiveOnset(level)
    \/ \E level \in Levels : PassiveSilence(level)
    \/ \E text \in UserTexts \cup {""} : PassiveTranscribed(text)
    \/ PassiveSubmit
    \/ PipelineStep

LoopSpec == Init /\ [][LoopNext]_vars

(* The turns of a session whose models were loaded once, with the context *)
(* of the generation engine followed: utterances are submitted, redone and *)
(* the transcript cleared, each between two calls of a running session.    *)
InSession == llm # None /\ tts # None /\ ~SessionEnded

ContextNext ==
    \/ \E o \in {"ok", "llm_fails", "tts_fails", "whisper_fails"} : StartChat(o)
    \/ (InSession /\ \E t \in UserTexts \cup Falsy : ProcessBegin(t))
    \/ PipelineStep
    \/ (InSession /\ pc = "idle" /\ ClearHistory)
    \/ (InSession /\ RedoLastMessage)

ContextSpec == ContextInit /\ [][ContextNext]_vars

(* ----------------------- properties ------------------------------------ *)
Last(s) == s[Len(s)]
CaptureOpen == recording_stream # NoneN /\ recording_stream \in open_streams
ProcessReturned == ret.op = "process_voice_input" /\ ret.arg \notin Falsy
UserTurn(t) == <<"You", t>>
AssistantTurn(a) == <<"Assistant", a>>
Undisturbed == call.stopAt = "none" /\ ~call.cleared

(* C1: over start_recording/stop_recording sequences (any session before   *)
(* shutdown), recording_stream is set exactly when one capture stream is   *)
(* open, that stream being the one it names; never more than one stream is *)
(* open; a start_recording issued while a capture is open returns False    *)
(* and opens nothing.                                                      *)
C1_OneCapture ==
    /\ [](/\ (recording_stream # NoneN) <=> (open_streams = {recording_stream})
          /\ Cardinality(open_streams) <= 1)
    /\ [][(ret'.op = "start_recording" /\ recording_stream # NoneN)
            => (ret'.val = False /\ open_streams' = open_streams)]_vars

C1_Witness ==
    /\ ret.op = "start_recording"
    /\ ret.val = False
    /\ CaptureOpen
    /\ ~processing

(* C2: start_recording called while a capture is active or while           *)
(* processing is true returns False, changes no field of the session state *)
(* and opens no stream.                                                    *)
C2_StartRefusedNoChange ==
    [][(ret'.op = "start_recording" /\ (recording_stream # NoneN \/ processing))
        => /\ ret'.val = False
           /\ UNCHANGED <<stateVars, captureVars, open_streams>>]_vars

C2_Witness ==
    /\ ret.op = "start_recording"
    /\ ret.val = False
    /\ processing
    /\ recording_stream = NoneN
    /\ open_streams = {}

(* C3: stop_recording with no capture returns None and changes nothing;    *)
(* with a capture handle it always clears stream, frames, device and       *)
(* sample rate; when the capture is open it closes the stream and returns  *)
(* the buffer with its sample rate if at least one frame was captured, and *)
(* None if no frame was captured.                                          *)
C3_StopCapture ==
    [][(ret'.op = "stop_recording")
        => /\ (recording_stream = NoneN)
                => /\ ret'.val = None
                   /\ status' = <<>>
                   /\ UNCHANGED <<stateVars, captureVars, open_streams>>
           /\ (recording_stream # NoneN)
                => /\ recording_stream' = NoneN
                   /\ recording_frames' = NoneN
                   /\ recording_pyaudio' = NoneN
                   /\ sample_rate' = NoneN
                   /\ recording_stream \notin open_streams'
                   /\ UNCHANGED stateVars
           /\ (CaptureOpen /\ recording_frames >= 1)
                => /\ ret'.val = "audio"
                   /\ ret'.data = <<recording_frames, sample_rate>>
           /\ (CaptureOpen /\ recording_frames = 0)
                => /\ ret'.val = None
                   /\ ret'.data = NoData]_vars

C3_Witness ==
    /\ ret.op = "stop_recording"
    /\ ret.val = "audio"
    /\ ret.data = <<MaxFrames, SAMPLE_RATE>>
    /\ recording_stream = NoneN
    /\ open_streams = {}

(* C4: process_voice_input with an empty or None text returns False and    *)
(* changes nothing: transcript, processing and last_user_message are       *)
(* unchanged, no engine is entered, no callback and no status is fired.    *)
C4_FalsyRejected ==
    [][(ret'.op = "process_voice_input" /\ ret'.arg \in Falsy)
        => /\ ret'.val = False
           /\ status' = <<>>
           /\ call'.notified = 0 /\ call'.gen = 0 /\ call'.synth = 0
           /\ call'.play = 0
           /\ UNCHANGED <<stateVars, captureVars, engineVars, localVars,
                          open_streams>>]_vars

C4_Witness ==
    /\ ret.op = "process_voice_input"
    /\ ret.arg = ""
    /\ ret.val = False
    /\ Len(chat_history) = 2
    /\ last_user_message = "hello"

(* C5: a call with non-empty text t that is neither cancelled nor cleared, *)
(* in which generation returns a and synthesis returns a buffer, appends   *)
(* exactly (user,t) then (assistant,a), invokes each engine and playback   *)
(* exactly once, ends with processing false and returns True.              *)
C5_SuccessfulTurn ==
    (ProcessReturned /\ Undisturbed /\ call.raised = "none"
        /\ call.audio = "audio")
    => /\ chat_history = call.h0 \o <<UserTurn(ret.arg), AssistantTurn(call.reply)>>
       /\ call.gen = 1 /\ call.synth = 1 /\ call.play = 1
       /\ ~processing
       /\ ret.val = True

C5_Witness ==
    /\ ProcessReturned
    /\ ret.val = True
    /\ call.play = 1
    /\ call.stopAt = "none"
    /\ chat_history = <<UserTurn("hello"), AssistantTurn("hi there")>>

(* C6: after a call in which the generation stage raised, processing is    *)
(* false, the call returned False, and the transcript is what it was       *)
(* before the call plus the user turn: no assistant turn was appended.     *)
C6_GenerationRaises ==
    (ProcessReturned /\ call.raised = "gen")
    => /\ ~processing
       /\ ret.val = False
       /\ call.reply = None
       /\ chat_history = IF call.cleared THEN <<>>
                         ELSE Append(call.h0, UserTurn(ret.arg))

C6_Witness ==
    /\ ProcessReturned
    /\ call.raised = "gen"
    /\ chat_history = <<UserTurn("hello")>>
    /\ Last(status) = "Error processing input"

(* C7: when the synthesis stage raises after generation returned a, the    *)
(* call reports an error status, leaves processing false, returns False    *)
(* and keeps (user,t),(assistant,a); in every failing turn the user turn   *)
(* is present and the assistant turn is present iff generation returned.   *)
C7_SynthesisRaises ==
    /\ (ProcessReturned /\ call.raised = "synth")
        => /\ status # <<>> /\ Last(status) = "Error processing input"
           /\ ~processing
           /\ ret.val = False
           /\ call.reply # None
           /\ ~call.cleared =>
                chat_history = call.h0 \o <<UserTurn(ret.arg),
                                            AssistantTurn(call.reply)>>
    /\ (ProcessReturned /\ ret.val = False /\ ~call.cleared)
        => chat_history = Append(call.h0, UserTurn(ret.arg))
                          \o (IF call.reply # None
                              THEN <<AssistantTurn(call.reply)>> ELSE <<>>)

C7_Witness ==
    /\ ProcessReturned
    /\ call.raised = "synth"
    /\ ret.val = False
    /\ chat_history = <<UserTurn("hello"), AssistantTurn("hi there")>>

(* C8: once stop_processing has taken effect during generation (or before  *)
(* synthesis starts) neither synthesis nor playback is invoked for that    *)
(* turn; once it has taken effect during synthesis, playback is not        *)
(* invoked; the call then ends with processing false, keeps every turn it  *)
(* appended, and no step of the turn touches the capture.                  *)
C8_StopSkipsLaterStages ==
    /\ [](/\ call.stopAt \in {"gen", "cb_asst"} => (call.synth = 0 /\ call.play = 0)
          /\ call.stopAt = "synth" => call.play = 0
          /\ (ProcessReturned /\ call.stopAt \in {"gen", "cb_asst", "synth"})
              => /\ ~processing
                 /\ ~call.cleared =>
                      chat_history = call.h0 \o <<UserTurn(ret.arg),
                                                  AssistantTurn(call.reply)>>)
    /\ [][(pc # "idle" /\ pc' # pc)
            => UNCHANGED <<captureVars, open_streams>>]_vars

C8_Witness ==
    /\ ProcessReturned
    /\ call.stopAt = "gen"
    /\ call.synth = 0
    /\ recording_stream = NoneN
    /\ chat_history = <<UserTurn("hello"), AssistantTurn("hi there")>>

(* C9: stop_processing does not abort a started engine call: it leaves the *)
(* call where it is, the engine's return stays possible, and a reply that  *)
(* arrives after the stop is still appended as an assistant turn with its  *)
(* notification; a synthesis in flight likewise still returns.             *)
C9_StopDoesNotAbort ==
    /\ [](/\ (call.stopAt = "gen" /\ pc # "gen" /\ ~call.cleared)
              => /\ Len(chat_history) = Len(call.h0) + 2
                 /\ chat_history[Len(chat_history)] = AssistantTurn(call.reply)
                 /\ call.reply # None
                 /\ call.notified = (IF call.redo THEN 3 ELSE 2)
          /\ (pc = "gen") => ENABLED (\E a \in Replies : GenReturn(a))
          /\ (pc = "synth") => ENABLED (\E b \in {"audio", None} : SynthReturn(b))
          /\ (ProcessReturned /\ call.stopAt = "synth") => call.synth = 1)
    /\ [][(ret'.op = "stop_processing") => UNCHANGED <<localVars, chat_history>>]_vars

C9_Witness ==
    /\ call.stopAt = "gen"
    /\ pc = "cb_asst"
    /\ ~processing
    /\ chat_history = <<UserTurn("again"), AssistantTurn("hi again")>>

(* C10: every call with non-empty text that returns leaves processing      *)
(* false and ends with a terminal status; processing is false whenever no  *)
(* call is in progress; and a call in progress eventually returns with     *)
(* processing false.                                                       *)
TerminalStatus == {"Ready to chat!", "Error processing input"}

C10_ProcessingCleared ==
    /\ [](/\ ProcessReturned
              => (~processing /\ status # <<>> /\ Last(status) \in TerminalStatus)
          /\ (pc = "idle") => ~processing)
    /\ (pc # "idle") ~> (pc = "idle" /\ ~processing)

C10_Witness ==
    /\ ProcessReturned
    /\ call.stopAt = "synth"
    /\ ~processing
    /\ status = <<"Ready to chat!">>

(* The step in which redo_last_message passes its guard, truncates the     *)
(* transcript and enters process_voice_input.                              *)
RedoAccepted == pc = "idle" /\ pc' = "cb_user" /\ call'.redo

(* The transcript ends with the last user turn and a reply to it.          *)
EndsWithExchange(h) ==
    /\ Len(h) >= 2
    /\ h[Len(h) - 1] = UserTurn(last_user_message)
    /\ h[Len(h)][1] = "Assistant"

(* C11: redo_last_message issued when the transcript ends with the last    *)
(* user turn u and its reply a removes exactly those two entries and       *)
(* re-submits u; when generation returns a2 the call leaves the transcript *)
(* equal to the earlier entries followed by (u, a2), so its length is what *)
(* it was before the redo.                                                 *)
C11_RedoReplacesExchange ==
    /\ [][(RedoAccepted /\ EndsWithExchange(chat_history))
            => /\ call'.h0 = SubSeq(chat_history, 1, Len(chat_history) - 2)
               /\ user_message' = last_user_message
               /\ chat_history' = Append(call'.h0, UserTurn(last_user_message))]_vars
    /\ [](ProcessReturned /\ call.redo /\ call.reply # None /\ ~call.cleared
            => /\ chat_history = call.h0 \o <<UserTurn(ret.arg),
                                              AssistantTurn(call.reply)>>
               /\ ret.arg = last_user_message)

C11_Witness ==
    /\ ProcessReturned
    /\ call.redo
    /\ ret.val = True
    /\ call.h0 = <<UserTurn("hello")>>
    /\ chat_history = <<UserTurn("hello"), UserTurn("again"),
                        AssistantTurn("hi again")>>

(* What the claim of C12 has redo_last_message remove: the trailing        *)
(* exchange, which is one entry when the last user turn got no reply.      *)
LastExchangeRemoved(h) ==
    IF Len(h) >= 2 /\ h[Len(h)][1] = "Assistant" /\ h[Len(h) - 1][1] = "You"
    THEN SubSeq(h, 1, Len(h) - 2)
    ELSE IF Len(h) >= 1 /\ h[Len(h)][1] = "You"
    THEN SubSeq(h, 1, Len(h) - 1)
    ELSE h

(* C12: redo_last_message removes the trailing user and assistant turns    *)
(* when the last user turn has a reply, and only the trailing user turn    *)
(* when it has none; no turn of an earlier exchange is removed.            *)
C12_RedoRemovesOnlyLastExchange ==
    [][RedoAccepted
        => chat_history' = Append(LastExchangeRemoved(chat_history),
                                  UserTurn(last_user_message))]_vars

(* C13: redo_last_message called with no last user message, or while       *)
(* processing is true, returns False, changes no field of the session      *)
(* state, reports no status, fires no notification and leaves the call in  *)
(* progress (if any) where it was, so it invokes no engine.                *)
C13_RedoRefusedNoChange ==
    [][((ret'.op = "redo_last_message" \/ RedoAccepted)
          /\ (last_user_message \in Falsy \/ processing))
        => /\ ret'.op = "redo_last_message"
           /\ ret'.val = False
           /\ status' = <<>>
           /\ updated' = 0
           /\ (pc # "idle") => (call' = call)
           /\ UNCHANGED <<stateVars, captureVars, engineVars, localVars,
                          open_streams>>]_vars

C13_Witness ==
    /\ ret.op = "redo_last_message"
    /\ ret.val = False
    /\ processing
    /\ pc = "gen"
    /\ last_user_message = "hello"

(* C14: clear_history, in whatever state it is called (a call in progress  *)
(* or not, the view scrolled or not), leaves the transcript empty and      *)
(* scroll_offset 0, calls on_chat_updated once and reports the status      *)
(* "Chat history cleared!".                                                *)
C14_ClearHistory ==
    [][(ret'.op = "clear_history")
        => /\ chat_history' = <<>>
           /\ scroll_offset' = 0
           /\ updated' = 1
           /\ status' = <<"Chat history cleared!">>]_vars

C14_Witness ==
    /\ ret.op = "clear_history"
    /\ call.cleared
    /\ pc = "gen"
    /\ chat_history = <<>>
    /\ scroll_offset = 0
    /\ updated = 1

(* C15: stop_processing called while processing is false changes no field  *)
(* and reports no status; called while processing is true it sets          *)
(* processing to false, changes nothing else and reports the status        *)
(* "Processing stopped!".                                                  *)
C15_StopProcessing ==
    [][(ret'.op = "stop_processing")
        => /\ UNCHANGED <<chat_history, scroll_offset, last_user_message,
                          is_ptt_mode, captureVars, engineVars, localVars,
                          open_streams>>
           /\ updated' = 0
           /\ IF processing
              THEN processing' = FALSE /\ status' = <<"Processing stopped!">>
              ELSE processing' = FALSE /\ status' = <<>>]_vars

C15_Witness ==
    /\ ret.op = "stop_processing"
    /\ status = <<>>
    /\ ~processing
    /\ pc = "cb_user"

(* C16: toggle_ptt_mode called while processing is true or while a capture *)
(* is held does not flip is_ptt_mode.                                      *)
C16_ToggleDeferred ==
    [][(ret'.op = "toggle_ptt_mode" /\ (processing \/ recording_stream # NoneN))
        => is_ptt_mode' = is_ptt_mode]_vars

(* C17: a call whose synthesis returns no audio (Kokoro caught its own     *)
(* exception) has both turns in the transcript, never enters playback,     *)
(* returns True, leaves processing false and ends with the status          *)
(* "Ready to chat!".                                                       *)
C17_SynthesisReturnsNone ==
    (ProcessReturned /\ call.synth = 1 /\ call.audio = None)
        => /\ call.play = 0
           /\ ret.val = True
           /\ ~processing
           /\ status = <<"Ready to chat!">>
           /\ ~call.cleared
                => chat_history = call.h0 \o <<UserTurn(ret.arg),
                                               AssistantTurn(call.reply)>>

C17_Witness ==
    /\ ProcessReturned
    /\ call.synth = 1
    /\ call.audio = None
    /\ Undisturbed
    /\ ret.val = True
    /\ chat_history = <<UserTurn("hello"), AssistantTurn("hi there")>>

(* C18: when cleanup has returned no capture is held: recording_stream is  *)
(* None and no stream is open.                                             *)
C18_CleanupReleasesCapture ==
    (ret.op = "cleanup") => (recording_stream = NoneN /\ open_streams = {})

(* The microphone captures open: PyAudio streams of start_recording and    *)
(* the sd.InputStream of a passive capture.                                *)
MicCaptures ==
    Cardinality(open_streams)
        + (IF passive.phase \in {"onset", "silence"} THEN 1 ELSE 0)

(* C19: at most one microphone capture is open at any time, push-to-talk   *)
(* and passive captures counted together.                                  *)
C19_OneMicrophoneCapture == MicCaptures <= 1

Even(h) == Len(h) % 2 = 0

(* C20 as claimed: whenever no call is in progress the transcript has even *)
(* length.                                                                 *)
C20_EvenAtRest == (pc = "idle") => Even(chat_history)

(* C20 amended: the length is even at rest as long as no generation raised *)
(* and clear_history did not run during a call.  A step taken at rest      *)
(* keeps an even length even; a call that starts from an even transcript   *)
(* at rest starts from an even one after redo's truncation; a call whose   *)
(* generation returns, cancelled or not, adds exactly its user turn and    *)
(* its assistant turn; a call whose generation raises adds only its user   *)
(* turn, which leaves the length odd.                                      *)
C20_EvenUnlessGenerationRaised ==
    /\ [][(pc = "idle" /\ pc' = "idle" /\ Even(chat_history))
            => Even(chat_history')]_vars
    /\ [][(pc = "idle" /\ pc' # "idle" /\ Even(chat_history))
            => (Even(call'.h0) /\ Len(chat_history') = Len(call'.h0) + 1)]_vars
    /\ [][(pc # "idle" /\ ~call.cleared /\ ~call'.cleared)
            => call'.h0 = call.h0]_vars
    /\ [](ProcessReturned /\ ~call.cleared
            => Len(chat_history)
                 = Len(call.h0) + (IF call.raised = "gen" THEN 1 ELSE 2))

C20_Witness ==
    /\ ProcessReturned
    /\ call.redo
    /\ call.stopAt = "gen"
    /\ call.raised = "none"
    /\ Len(call.h0) = 0
    /\ Len(chat_history) = 2

(* C21: in every reachable state scroll_offset lies between 0 and twice    *)
(* the length of the transcript.                                           *)
C21_ScrollClamped ==
    /\ 0 <= scroll_offset
    /\ scroll_offset <= 2 * Len(chat_history)

(* C22: while every polled window of a passive capture has rms not above   *)
(* the threshold the capture stays in the loop awaiting speech: that loop  *)
(* is left only by a window above the threshold, another poll is always    *)
(* possible, and nothing is handed to transcription.                       *)
C22_NoOnsetWithoutSpeech ==
    /\ [][(passive.phase = "onset" /\ passive'.level # "above")
            => (passive'.phase = "onset" /\ passive'.sent = 0)]_vars
    /\ []((passive.phase = "onset" /\ passive.windows < MaxWindows)
            => ENABLED (\E level \in {"below", "equal"} : PassiveOnset(level)))

C22_Witness ==
    /\ passive.phase = "onset"
    /\ passive.level = "equal"
    /\ passive.windows = 3

(* The number of polls the required silence takes.                         *)
SilentPollsRequired == SILENCE_DURATION_REQUIRED \div CHECK_INTERVAL

(* C23: after speech started a passive capture goes on while fewer than    *)
(* six windows below the threshold were polled in a row (a window at or    *)
(* above the threshold starts the count again), ends at the poll that      *)
(* makes them six, and hands every window recorded to transcription.       *)
C23_EndsAfterRequiredSilence ==
    /\ (passive.phase = "silence") => (passive.quiet < SilentPollsRequired)
    /\ (passive.phase = "transcribing")
          => /\ passive.quiet = SilentPollsRequired
             /\ passive.level = "below"
             /\ passive.sent = passive.windows

C23_Witness ==
    /\ passive.phase = "transcribing"
    /\ passive.silence = SILENCE_RESTART + SILENCE_DURATION_REQUIRED
    /\ passive.quiet = 6
    /\ passive.sent = 8

(* C24: redo_last_message with no last user message or while processing,   *)
(* and start_recording while a capture is held or while processing, return *)
(* False and report a status through status_callback.                      *)
C24_InvalidTransitionReported ==
    [][(\/ ret'.op = "redo_last_message" /\ (last_user_message \in Falsy \/ processing)
        \/ ret'.op = "start_recording" /\ (recording_stream # NoneN \/ processing))
        => (ret'.val = False /\ status' # <<>>)]_vars

(* C25: a start_recording that passes its guard and cannot open the        *)
(* microphone reports "Error: Could not start recording", returns False    *)
(* and changes nothing: no capture is held, processing is false, and a     *)
(* start_recording issued next passes the guard and opens a capture.       *)
C25_DeviceError ==
    /\ [][(ret'.op = "start_recording" /\ ret'.val = False
            /\ recording_stream = NoneN /\ ~processing)
            => /\ status' = <<"Error: Could not start recording">>
               /\ UNCHANGED <<stateVars, captureVars, open_streams>>
               /\ recording_stream' = NoneN
               /\ ~processing']_vars
    /\ []((ret.op = "start_recording" /\ ret.val = False /\ status # <<>>)
            => ENABLED (StartRecording(TRUE) /\ ret'.val = True))

C25_Witness ==
    /\ ret.op = "start_recording"
    /\ ret.val = False
    /\ status = <<"Error: Could not start recording">>
    /\ recording_stream = NoneN
    /\ pc = "idle"

(* C26: one call of process_voice_input enters generation, synthesis and   *)
(* playback at most once each; the step that reports a failure ends the    *)
(* call with False; and once a call has returned no stage runs until       *)
(* process_voice_input or redo_last_message is called again.               *)
C26_NoAutomaticRetry ==
    /\ [](/\ call.gen <= 1
          /\ call.synth <= 1
          /\ call.play <= 1
          /\ (pc = "idle") => ~ENABLED PipelineStep)
    /\ [][(status' # <<>> /\ Last(status') = "Error processing input")
            => (pc' = "idle" /\ ret'.op = "process_voice_input"
                /\ ret'.val = False)]_vars
    /\ [][(pc = "idle" /\ pc' # "idle")
            => /\ pc' = "cb_user"
               /\ call'.gen = 0
               /\ call'.redo => user_message' = last_user_message]_vars

C26_Witness ==
    /\ ProcessReturned
    /\ ret.val = False
    /\ call.raised = "synth"
    /\ call.gen = 1
    /\ call.synth = 0
    /\ call.play = 0

(* C27: the step that appends the user turn calls on_chat_updated before   *)
(* generation is entered, and generation is entered only after it; the     *)
(* step in which generation returns appends the assistant turn and calls   *)
(* on_chat_updated before synthesis or playback is entered, and those are  *)
(* entered only after it.                                                  *)
C27_NotificationOrder ==
    /\ [][(pc = "idle" /\ pc' = "cb_user")
            => /\ updated' >= 1
               /\ call'.gen = 0
               /\ Last(chat_history') = UserTurn(user_message')]_vars
    /\ [][(call'.gen > call.gen) => (pc = "cb_user" /\ call.notified >= 1)]_vars
    /\ [][(pc = "gen" /\ pc' # "gen")
            => /\ pc' = "cb_asst"
               /\ updated' = 1
               /\ Last(chat_history') = AssistantTurn(assistant_message')
               /\ call'.synth = 0
               /\ call'.play = 0]_vars
    /\ [][(call'.synth > call.synth) => pc = "cb_asst"]_vars
    /\ [][(call'.play > call.play) => pc = "synth"]_vars

C27_Witness ==
    /\ pc = "cb_asst"
    /\ updated = 1
    /\ call.gen = 1
    /\ call.synth = 0
    /\ chat_history = <<UserTurn("hello"), AssistantTurn("hi there")>>

(* C28: from the acceptance of an utterance (its user turn appended) to    *)
(* the end of the call, unless stop_processing took effect, processing is  *)
(* true; this includes the state the on_chat_updated callback for the user *)
(* turn observes.                                                          *)
C28_ProcessingFromAcceptance ==
    (pc # "idle" /\ call.stopAt = "none") => processing

(* C29: while a call of process_voice_input is in progress no              *)
(* start_recording or redo_last_message succeeds, no capture is opened and *)
(* no further user turn is appended.                                       *)
C29_NoReentrantInput ==
    [][(pc # "idle")
        => /\ (ret'.op \in {"start_recording", "redo_last_message"})
                => ret'.val = False
           /\ open_streams' \subseteq open_streams
           /\ (recording_stream' # recording_stream) => (recording_stream' = NoneN)
           /\ (Len(chat_history') > Len(chat_history))
                => Last(chat_history')[1] = "Assistant"]_vars

(* C30: processing true together with a capture held is unreachable, so    *)
(* the session is in exactly one of Idle (neither), Capturing and          *)
(* Processing.                                                             *)
C30_ExclusiveStates == ~(processing /\ CaptureOpen)

(* The user turns of a transcript and the text of the last one.            *)
UserTurnIndexes(h) == {i \in 1..Len(h) : h[i][1] = "You"}
LastUserTurnText(h) ==
    h[CHOOSE i \in UserTurnIndexes(h) : \A j \in UserTurnIndexes(h) : j <= i][2]
SubmitAccepted == pc = "idle" /\ pc' = "cb_user" /\ ~call'.redo

PassiveStreamOpen == passive.phase \in {"onset", "silence"}
QuietSinceOnset ==
    passive.phase = "silence" => (passive.level = "below" \/ passive.silence = 0)
PhaseOrder ==
    {<<"off", "onset">>, <<"off", "returned">>, <<"onset", "silence">>,
     <<"silence", "transcribing">>, <<"transcribing", "returned">>,
     <<"returned", "off">>}

(* C32: with the polling loops running, a passive capture in which a       *)
(* window above the threshold occurs and which from some point on polls    *)
(* only windows below it terminates (returns its text; the capture is not  *)
(* cut short by MaxWindows).  It passes through its phases in order:       *)
(* awaiting onset, left only by a window above the threshold, then         *)
(* awaiting silence, then transcription.  Transcription is entered once    *)
(* per capture, only from the second loop and with the stream closed, and  *)
(* nothing is handed to it while the stream is open.                       *)
C32_PassiveTerminates ==
    /\ [][/\ passive'.phase # passive.phase
               => <<passive.phase, passive'.phase>> \in PhaseOrder
          /\ (passive.phase = "onset" /\ passive'.phase = "silence")
               => passive'.level = "above"
          /\ (passive'.phase = "transcribing" /\ passive.phase # "transcribing")
               => /\ passive.phase = "silence"
                  /\ passive.sent = 0
                  /\ passive'.sent = passive'.windows
                  /\ passive'.sent > 0
                  /\ ~PassiveStreamOpen']_vars
    /\ [](PassiveStreamOpen => passive.sent = 0)
    /\ ([]QuietSinceOnset)
          => ((passive.phase = "silence"
                  /\ passive.windows + SilentPollsRequired <= MaxWindows)
                ~> (passive.phase = "returned"))
    /\ (/\ <>[]QuietSinceOnset
        /\ []<>(passive.phase # "onset")
        /\ [](PassiveStreamOpen => passive.windows < MaxWindows))
          => (PassiveStreamOpen ~> (passive.phase = "returned"))

(* A capture that waited through a quiet window for speech to start and   *)
(* ended on the six quiet windows that followed it.                        *)
C32_Witness ==
    /\ passive.phase = "transcribing"
    /\ passive.windows = SilentPollsRequired + 2
    /\ passive.silence = SILENCE_DURATION_REQUIRED
    /\ passive.sent = passive.windows

ClickOn(i) == ChatLoop("KEY_MOUSE", 1, ButtonColumn(Buttons(is_ptt_mode), i))

(* C34: a click on a header button runs its operation: the key that        *)
(* handle_button_click returns for Clear Chat, Redo Last, Stop and the     *)
(* mode button makes the chat loop call clear_history, redo_last_message,  *)
(* stop_processing and toggle_ptt_mode.                                    *)
C34_ButtonsDispatch ==
    [][/\ ClickOn(1) => ret'.op = "clear_history"
       /\ ClickOn(4) => (ret'.op = "redo_last_message" \/ RedoAccepted)
       /\ ClickOn(5) => ret'.op = "stop_processing"
       /\ ClickOn(6) => ret'.op = "toggle_ptt_mode"]_vars

(* A redo_last_message call made right after a clear_history at rest.      *)
RedoAfterClear ==
    /\ ret.op = "clear_history"
    /\ pc = "idle"
    /\ (ret'.op = "redo_last_message" \/ RedoAccepted)

(* C35: clear_history changes only chat_history and scroll_offset:         *)
(* last_user_message, processing, the capture fields and is_ptt_mode keep  *)
(* their values.  A redo_last_message issued after it, once an utterance   *)
(* was accepted, is therefore accepted and resubmits that utterance into   *)
(* the empty transcript; when its generation returns the transcript is     *)
(* exactly that user turn and the new reply.                               *)
C35_ClearKeepsRedo ==
    /\ [][(ret'.op = "clear_history")
            => /\ chat_history' = <<>>
               /\ scroll_offset' = 0
               /\ UNCHANGED <<last_user_message, processing, is_ptt_mode,
                              captureVars>>]_vars
    /\ [][(RedoAfterClear /\ last_user_message \notin Falsy)
            => /\ RedoAccepted
               /\ call'.h0 = <<>>
               /\ user_message' = last_user_message
               /\ chat_history' = <<UserTurn(last_user_message)>>
               /\ last_user_message' = last_user_message]_vars
    /\ [](ProcessReturned /\ call.redo /\ call.h0 = <<>> /\ call.reply # None
             /\ ~call.cleared
            => chat_history = <<UserTurn(last_user_message),
                                AssistantTurn(call.reply)>>)

(* clear_history has just run at rest with an utterance remembered, a      *)
(* capture held and passive mode selected; the redo that follows is taken. *)
C35_Witness ==
    /\ ret.op = "clear_history"
    /\ pc = "idle"
    /\ last_user_message = "again"
    /\ recording_stream # NoneN
    /\ ~is_ptt_mode
    /\ ENABLED (RedoLastMessage /\ RedoAccepted)

(* The messages a transcript corresponds to, turn by turn.                 *)
ContextOf(h) ==
    [i \in 1..Len(h) |->
        <<IF h[i][1] = "You" THEN "user" ELSE "assistant", h[i][2]>>]

(* C36: whenever no call is in progress, after any sequence of             *)
(* process_voice_input, redo_last_message and clear_history calls made at  *)
(* rest, the messages LlamaChat holds after the system prompt are the      *)
(* turns of the transcript, one for one and in order.                      *)
C36_ContextMatchesTranscript ==
    (pc = "idle" /\ llm # None) => (messages = ContextOf(chat_history))

====
